---------------------------- MODULE Spec2Model ----------------------------
(***************************************************************************)
(* Template-string resolution of garden (src/src/template-string.ts):      *)
(* genericResolver (the key-path walk), parseTemplateString (the string    *)
(* interpolator), resolveTemplateStrings (the deep resolver) and the lazy  *)
(* parser handle getParser.                                                *)
(*                                                                         *)
(* JavaScript values are tagged records; `t` is the result of typeof,      *)
(* except for null and arrays, which typeof reports as "object" and which  *)
(* carry their own tag here (TypeOf gives the typeof result).              *)
(***************************************************************************)
EXTENDS Integers, Sequences, FiniteSets, TLC

(***************************************************************************)
(* Bounds of the model.                                                    *)
(***************************************************************************)
\* longest key path of an expression drawn exhaustively over Keys
MaxParts == 3
\* most segments of a template built from SegPool
MaxSegs == 2
\* most elements of a sequence in an input value of resolveTemplateStrings
MaxElems == 2

(***************************************************************************)
(* JavaScript values.                                                      *)
(***************************************************************************)
Undefined == [t |-> "undefined"]
Null == [t |-> "null"]
Str(s) == [t |-> "string", s |-> s]
Num(n) == [t |-> "number", n |-> n]
Bool(b) == [t |-> "boolean", b |-> b]
\* a resolver function of the context, named by id
Fn(id) == [t |-> "function", id |-> id]
\* a nested context: m maps its keys to values
Obj(m) == [t |-> "object", m |-> m]

\* typeof v
TypeOf(v) == IF v.t \in {"null", "array"} THEN "object" ELSE v.t

\* ToBoolean(v), the test of `value ? ... : ...`
Truthy(v) ==
    CASE v.t = "undefined" -> FALSE
      [] v.t = "null" -> FALSE
      [] v.t = "string" -> v.s # ""
      [] v.t = "number" -> v.n # 0
      [] v.t = "boolean" -> v.b
      [] OTHER -> TRUE

\* isPrimitive of types/common: string, number or boolean
isPrimitive(v) == v.t \in {"string", "number", "boolean"}

\* v[part]: a property read. Only own keys of a context are found; the key
\* names of the model are none of the names a prototype defines ("length",
\* "toString", ...), so a read on a string, number or boolean finds nothing.
GetProp(v, part) ==
    IF v.t = "object" /\ part \in DOMAIN v.m THEN v.m[part] ELSE Undefined

\* parts.join(sep)
RECURSIVE Join(_, _)
Join(parts, sep) ==
    IF Len(parts) = 0 THEN ""
    ELSE IF Len(parts) = 1 THEN parts[1]
    ELSE parts[1] \o sep \o Join(Tail(parts), sep)

\* parts.slice(from) for a 0-based index from
Slice(parts, from) == SubSeq(parts, from + 1, Len(parts))

(***************************************************************************)
(* Errors.  A message is the sequence of the pieces of its template        *)
(* literal: the fixed texts and the substituted values.                    *)
(***************************************************************************)
TemplateStringError(message) == [type |-> "TemplateStringError", message |-> message]

KeyNotFoundError(path) == TemplateStringError(<<"Could not find key: ", path>>)

\* variant: the message leaves the path out
NonPrimitiveErrorMutant(path, value) ==
    TemplateStringError(<<"Value exists but is not a primitive (string, number or boolean)">>)

NonPrimitiveError(path, value) ==
    TemplateStringError(<<"Value at ", path,
                          " exists but is not a primitive (string, number or boolean)">>)

\* the error a resolver function fails with (an input of the model)
ResolverError(id, args) == [type |-> "Error", message |-> <<"resolver ", id, " has no key ", Join(args, ".")>>]

Contains(message, piece) == \E i \in 1..Len(message) : message[i] = piece

(***************************************************************************)
(* Contexts and resolver functions (the inputs).                           *)
(***************************************************************************)
\* key names used by contexts and key paths; "m" is a key of no context
Keys == {"a", "z", "n", "f", "g", "m"}

\* resolver functions returning a Promise<string>; the others return a string
AsyncFns == {"f", "h"}

\* A resolver function interprets the remaining parts the way the env
\* resolver of the spec does: it knows every key but "m".
FnFails(id, args) == \E i \in 1..Len(args) : args[i] = "m"

\* the string a resolver function produces for args when it does not fail
FnValue(id, args) == Str(id \o "(" \o Join(args, ".") \o ")")

CtxA ==
    Obj([a |-> Str("A"),
         z |-> Num(0),
         n |-> Obj([a |-> Str("NA"), z |-> Num(7), n |-> Obj([a |-> Str("NNA")]), f |-> Fn("h")]),
         f |-> Fn("f"),
         g |-> Fn("g")])

CtxB ==
    Obj([a |-> Bool(TRUE),
         z |-> Str(""),
         n |-> Obj([a |-> Num(5), z |-> Bool(FALSE), g |-> Fn("g"), f |-> Str("NF")]),
         f |-> Fn("f"),
         g |-> Str("G")])

Contexts == {CtxA, CtxB}

(***************************************************************************)
(* genericResolver(context)(parts).  The loop state is the index p (1-based *)
(* here), the local `value`, and a trace of the property reads made so far: *)
(* which part was read and whether it was read from the top-level context.  *)
(* The walk ends by returning a value, throwing, or calling a resolver      *)
(* function with the rest of the parts.                                     *)
(***************************************************************************)
\* the object read at one iteration: `value ? value[part] : context[part]`
ReadTarget(context, value) == IF Truthy(value) THEN value ELSE context

\* variant: parts.slice(p), which hands over the function's own part too
RestArgsMutant(parts, p) == Slice(parts, p - 1)

\* the argument of the resolver function found at 1-based index p
RestArgs(parts, p) == Slice(parts, p)

\* variant: no check after the loop
FinalCheckMutant(path, value, lookups) ==
    [kind |-> "return", value |-> value, lookups |-> lookups]

\* the check after the loop
FinalCheck(path, value, lookups) ==
    IF ~isPrimitive(value)
    THEN [kind |-> "throw", error |-> NonPrimitiveError(path, value), lookups |-> lookups]
    ELSE [kind |-> "return", value |-> value, lookups |-> lookups]

\* variant: a missing key resolves to the empty string
MissingMutant(path, lookups) ==
    [kind |-> "return", value |-> Str(""), lookups |-> lookups]

\* the outcome of a part whose read found nothing
Missing(path, lookups) ==
    [kind |-> "throw", error |-> KeyNotFoundError(path), lookups |-> lookups]

RECURSIVE WalkFrom(_, _, _, _, _)
WalkFrom(context, parts, p, value, lookups) ==
    IF p > Len(parts)
    THEN FinalCheck(Join(parts, "."), value, lookups)
    ELSE LET part == parts[p]
             target == ReadTarget(context, value)
             found == GetProp(target, part)
             trace == Append(lookups, [p |-> p, part |-> part,
                                       top |-> target = context, found |-> found])
         IN  CASE TypeOf(found) = "function" ->
                    [kind |-> "call", fn |-> found.id, args |-> RestArgs(parts, p),
                     lookups |-> trace]
               [] TypeOf(found) = "undefined" -> Missing(Join(parts, "."), trace)
               [] OTHER -> WalkFrom(context, parts, p + 1, found, trace)

genericResolver(context, parts) == WalkFrom(context, parts, 1, Undefined, <<>>)

\* variant: a first part that is missing is created as an empty context
ContextAfterWalkMutant(context, parts) ==
    IF parts[1] \in DOMAIN context.m THEN context
    ELSE Obj([k \in DOMAIN context.m \cup {parts[1]} |->
                IF k \in DOMAIN context.m THEN context.m[k] ELSE Obj(<<>>)])

\* the context object after a walk: the walk only reads properties
ContextAfterWalk(context, parts) == context

(***************************************************************************)
(* Template strings.  The parser front-end (template-string.pegjs) splits  *)
(* a string into literal texts and ${a.b.c} expressions; a template is the *)
(* sequence of these segments and Source is the string it is written as.   *)
(***************************************************************************)
Lit(text) == [k |-> "lit", text |-> text]
Expr(parts) == [k |-> "expr", parts |-> parts]

SegSource(seg) ==
    IF seg.k = "lit" THEN seg.text ELSE "${" \o Join(seg.parts, ".") \o "}"

RECURSIVE Source(_)
Source(tpl) == IF tpl = <<>> THEN "" ELSE SegSource(Head(tpl)) \o Source(Tail(tpl))

\* every key path of at most MaxParts parts
AllPaths == UNION {[1..n -> Keys] : n \in 1..MaxParts}

\* the segments that templates of several segments are built from
SegPool ==
    {Lit("x-"), Expr(<<"a">>), Expr(<<"n", "z">>), Expr(<<"z", "a">>),
     Expr(<<"f", "a">>), Expr(<<"f", "m">>), Expr(<<"n", "f", "a">>),
     Expr(<<"n", "f", "m">>), Expr(<<"g">>), Expr(<<"g", "m">>), Expr(<<"m">>)}

\* the parser yields no two adjacent literals
NoAdjacentLits(tpl) ==
    \A i \in 1..(Len(tpl) - 1) : ~(tpl[i].k = "lit" /\ tpl[i + 1].k = "lit")

\* texts without any expression, some of them spelled like keys
LitTexts == {"", "x-", "a", "z.a", "$f", "{n}"}

Templates ==
    {<<Expr(parts)>> : parts \in AllPaths}
    \cup {<<Lit(text)>> : text \in LitTexts}
    \cup {tpl \in UNION {[1..n -> SegPool] : n \in 1..MaxSegs} : NoAdjacentLits(tpl)}

\* parser.parse: the segments of a string, in source order
ParseTable == {<<Source(tpl), tpl>> : tpl \in Templates}

Segments(string) == (CHOOSE e \in ParseTable : e[1] = string)[2]

(***************************************************************************)
(* Input values of resolveTemplateStrings: mappings (entries in insertion  *)
(* order), sequences and leaves.                                           *)
(***************************************************************************)
Map(entries) == [t |-> "map", e |-> entries]
Arr(elems) == [t |-> "array", q |-> elems]
Entry(key, v) == [key |-> key, v |-> v]

LeafPool ==
    {Null, Num(1), Bool(FALSE),
     Str("${a}"), Str("${f.a}"), Str("x-${n.f.a}"), Str("${f.m}")}

Values ==
    {Map(<<Entry("a", l), Entry("b", Arr(q))>>) :
        l \in LeafPool, q \in UNION {[1..n -> LeafPool] : n \in 1..MaxElems}}
    \cup {Map(<<Entry("c", Map(<<Entry("d", l1)>>)), Entry("a", l2)>>) :
            l1 \in LeafPool, l2 \in LeafPool}

(***************************************************************************)
(* deep-map's traversal: the paths of the leaves of a value, in visiting   *)
(* order.  A step of a path is a mapping key or a sequence index written   *)
(* as a property key ("1", "2", ...).                                      *)
(***************************************************************************)
IsLeaf(v) == v.t \notin {"map", "array"}

RECURSIVE LeafPaths(_, _)
RECURSIVE LeafPathsOfEntries(_, _)
RECURSIVE LeafPathsOfElems(_, _, _)
LeafPaths(v, prefix) ==
    CASE v.t = "map" -> LeafPathsOfEntries(v.e, prefix)
      [] v.t = "array" -> LeafPathsOfElems(v.q, 1, prefix)
      [] OTHER -> <<prefix>>
LeafPathsOfEntries(entries, prefix) ==
    IF entries = <<>> THEN <<>>
    ELSE LeafPaths(Head(entries).v, Append(prefix, Head(entries).key))
         \o LeafPathsOfEntries(Tail(entries), prefix)
LeafPathsOfElems(elems, i, prefix) ==
    IF i > Len(elems) THEN <<>>
    ELSE LeafPaths(elems[i], Append(prefix, ToString(i)))
         \o LeafPathsOfElems(elems, i + 1, prefix)

\* the value at a path
RECURSIVE ValueAt(_, _)
ValueAt(v, path) ==
    IF path = <<>> THEN v
    ELSE IF v.t = "map"
         THEN ValueAt((CHOOSE en \in {v.e[i] : i \in 1..Len(v.e)} : en.key = Head(path)).v,
                      Tail(path))
         ELSE ValueAt(v.q[CHOOSE i \in 1..Len(v.q) : ToString(i) = Head(path)], Tail(path))

(***************************************************************************)
(* The strings of two calls of parseTemplateString that are pending at the *)
(* same time.                                                              *)
(***************************************************************************)
PairStrings ==
    {"${a}", "${z.a}", "${f.a}", "${n.f.a}", "${f.m}", "x-${g}", "${f.a}${n.f.m}",
     "${n}", "${a}${m}"}

(***************************************************************************)
(* getTemplateContext(extraContext): { ...baseContext, ...extraContext }   *)
(* with baseContext = { env: process.env }.                                *)
(***************************************************************************)
\* process.env
ProcessEnvs == {Obj(<<>>), Obj([HOME |-> Str("/home/u")]),
                Obj([HOME |-> Str("/root"), PATH |-> Str("/bin")])}

\* values of the keys of an extra context
ExtraValues == {Str("X"), Fn("f"), Obj([HOME |-> Str("/else"), n |-> Num(1)])}

\* the extra contexts: every choice of keys among env, a, n and of their
\* values; the empty one is the default argument
ExtraContexts ==
    UNION {{Obj(m) : m \in [ks -> ExtraValues]} : ks \in SUBSET {"env", "a", "n"}}

\* { ...a, ...b }: the own keys of a, then those of b over them
Spread(a, b) ==
    [k \in DOMAIN a \cup DOMAIN b |-> IF k \in DOMAIN b THEN b[k] ELSE a[k]]

\* variant: the base context is spread over the extra context
getTemplateContextMutant(extraContext, env) ==
    Obj(Spread(extraContext.m, [env |-> env]))

getTemplateContext(extraContext, env) ==
    Obj(Spread([env |-> env], extraContext.m))

(***************************************************************************)
(* The state of one run: a call of parseTemplateString (mode "interpolate")*)
(* or of resolveTemplateStrings (mode "resolveAll") on an input and a      *)
(* context; two calls of parseTemplateString with different contexts (mode *)
(* "pair"); or a call of getTemplateContext (mode "buildContext") on the   *)
(* extra context `context` with process.env = input.                       *)
(***************************************************************************)
VARIABLES
    mode,         \* which function the run calls
    context,      \* the context argument
    other,        \* the context argument of the second of two calls
    input,        \* the string or the value argument
    _parser,      \* the module variable _parser
    parserLoads,  \* how often getParser has built the parser
    main,         \* where the called function stands
    todo,         \* deepMap: the leaf paths not visited yet
    running,      \* <<c>> while call c of parseTemplateString runs synchronously
    calls,        \* the calls of parseTemplateString, by the path of their leaf
    invocations,  \* the calls of resolver functions made so far
    promises,     \* the promises returned by resolver functions
    settled,      \* the promises in the order they settled
    mapped,       \* the value deepMap returned
    outcome       \* the outcome of resolveTemplateStrings

vars == <<mode, context, other, input, _parser, parserLoads, main, todo, running,
          calls, invocations, promises, settled, mapped, outcome>>

NoParser == "undefined"
Pending == [kind |-> "pending"]

\* the promise an async function call returns, identified by the leaf path
PromiseOf(c) == [t |-> "promise", c |-> c]

Init ==
    /\ \/ /\ mode = "interpolate"
          /\ input \in {Source(tpl) : tpl \in Templates}
          /\ context \in Contexts /\ other = Undefined
       \/ /\ mode = "resolveAll"
          /\ input \in Values
          /\ context \in Contexts /\ other = Undefined
       \/ /\ mode = "pair"
          /\ input \in PairStrings \X PairStrings
          /\ context \in Contexts /\ other \in Contexts \ {context}
       \/ /\ mode = "buildContext"
          /\ input \in ProcessEnvs
          /\ context \in ExtraContexts /\ other = Undefined
    /\ _parser = NoParser
    /\ parserLoads = 0
    /\ main = "start"
    /\ todo = <<>>
    /\ running = <<>>
    /\ calls = <<>>
    /\ invocations = <<>>
    /\ promises = <<>>
    /\ settled = <<>>
    /\ mapped = Undefined
    /\ outcome = Pending

(***************************************************************************)
(* getParser: the parser is loaded when _parser is not set yet.            *)
(***************************************************************************)
\* the parser object that the n-th load builds, by require of the module
\* template-string-parser or by peg.generate from the grammar: each load
\* gives a new object
LoadedParser(n) == "parser#" \o ToString(n)

\* variant: the parser is loaded at every call
GetParserMutant ==
    /\ _parser' = LoadedParser(parserLoads + 1)
    /\ parserLoads' = parserLoads + 1

GetParser ==
    IF _parser = NoParser
    THEN /\ _parser' = LoadedParser(parserLoads + 1)
         /\ parserLoads' = parserLoads + 1
    ELSE UNCHANGED <<_parser, parserLoads>>

(***************************************************************************)
(* parseTemplateString(string, context), up to the start of parser.parse:  *)
(* the call is entered, the parser fetched and the string split.           *)
(***************************************************************************)
\* ctx names the variable that holds the call's context object; parser is
\* what getParser returned to the call
NewCall(string, ctx, parser) ==
    [string |-> string, ctx |-> ctx, parser |-> parser, segs |-> Segments(string),
     pc |-> "parsing", idx |-> 1, parsed |-> <<>>, walks |-> <<>>,
     result |-> Undefined, error |-> Undefined]

EnterParseTemplateString(c, string, ctx) ==
    /\ GetParser
    /\ calls' = (c :> NewCall(string, ctx, _parser')) @@ calls
    /\ running' = <<c>>

\* the context object call c was given as its argument
GivenContext(c) == IF calls[c].ctx = "other" THEN other ELSE context

\* variant: every call resolves against the context of the first call
CtxOfMutant(c) == context

\* the context that getKey = genericResolver(context) of call c reads
CtxOf(c) == GivenContext(c)

\* the run calls parseTemplateString(input, context)
Interpolate ==
    /\ main = "start" /\ mode = "interpolate"
    /\ EnterParseTemplateString(<<>>, input, "context")
    /\ main' = "interpolate"
    /\ UNCHANGED <<mode, context, other, input, todo, invocations, promises, settled,
                   mapped, outcome>>

\* the run calls parseTemplateString(input[1], context) and then, when that
\* call has returned its promise, parseTemplateString(input[2], other)
InterpolateFirst ==
    /\ main = "start" /\ mode = "pair"
    /\ EnterParseTemplateString(<<"1">>, input[1], "context")
    /\ main' = "first"
    /\ UNCHANGED <<mode, context, other, input, todo, invocations, promises, settled,
                   mapped, outcome>>

InterpolateSecond ==
    /\ main = "first" /\ running = <<>>
    /\ EnterParseTemplateString(<<"2">>, input[2], "other")
    /\ main' = "pair"
    /\ UNCHANGED <<mode, context, other, input, todo, invocations, promises, settled,
                   mapped, outcome>>

(***************************************************************************)
(* The call of a resolver function: value(parts.slice(p + 1)).             *)
(***************************************************************************)
\* what a synchronous resolver function does
SyncCall(fn, args) ==
    IF FnFails(fn, args)
    THEN [kind |-> "throw", error |-> ResolverError(fn, args)]
    ELSE [kind |-> "return", value |-> FnValue(fn, args)]

NewPromise(fn, args, c, seg) ==
    [fn |-> fn, args |-> args, owner |-> c, seg |-> seg, state |-> "pending",
     value |-> Undefined, error |-> Undefined]

(***************************************************************************)
(* One segment of parser.parse: a literal is kept, an expression is handed *)
(* to getKey = genericResolver(context).  A throw leaves parse and rejects *)
(* the promise of the async function parseTemplateString.                  *)
(***************************************************************************)
Item(v) == [kind |-> "value", v |-> v]
PromiseItem(pid) == [kind |-> "promise", pid |-> pid]

Reject(c, err) ==
    calls' = [calls EXCEPT ![c].pc = "rejected", ![c].error = err]

ParseSegment(c) ==
    /\ running = <<c>>
    /\ calls[c].pc = "parsing"
    /\ calls[c].idx <= Len(calls[c].segs)
    /\ LET call == calls[c]
           seg == call.segs[call.idx]
           walk == genericResolver(CtxOf(c), seg.parts)
           after == ContextAfterWalk(GivenContext(c), seg.parts)
           res == IF walk.kind = "call" /\ walk.fn \notin AsyncFns
                  THEN SyncCall(walk.fn, walk.args) ELSE walk
           logged == [call EXCEPT !.walks = Append(@, [seg |-> call.idx, walk |-> walk]),
                                  !.idx = @ + 1]
       IN  IF seg.k = "lit"
           THEN /\ calls' = [calls EXCEPT ![c].parsed = Append(@, Item(Str(seg.text))),
                                           ![c].idx = @ + 1]
                /\ UNCHANGED <<context, other, invocations, promises, running>>
           ELSE /\ context' = IF call.ctx = "other" THEN context ELSE after
                /\ other' = IF call.ctx = "other" THEN after ELSE other
                /\ invocations' =
                      IF walk.kind = "call"
                      THEN Append(invocations, [fn |-> walk.fn, args |-> walk.args,
                                                c |-> c, seg |-> call.idx])
                      ELSE invocations
                /\ CASE res.kind = "return" ->
                          /\ calls' = [calls EXCEPT ![c] =
                                         [logged EXCEPT !.parsed = Append(@, Item(res.value))]]
                          /\ UNCHANGED <<promises, running>>
                     [] res.kind = "throw" ->
                          /\ calls' = [calls EXCEPT ![c] =
                                         [logged EXCEPT !.pc = "rejected", !.error = res.error]]
                          /\ running' = <<>>
                          /\ UNCHANGED promises
                     [] res.kind = "call" ->
                          /\ promises' = Append(promises,
                                                NewPromise(walk.fn, walk.args, c, call.idx))
                          /\ calls' = [calls EXCEPT ![c] =
                                         [logged EXCEPT !.parsed =
                                             Append(@, PromiseItem(Len(promises) + 1))]]
                          /\ UNCHANGED running
    /\ UNCHANGED <<mode, input, _parser, parserLoads, main, todo, settled, mapped, outcome>>

\* `await Bluebird.all(parsed)`: the call is suspended and control returns
AwaitAll(c) ==
    /\ running = <<c>>
    /\ calls[c].pc = "parsing"
    /\ calls[c].idx > Len(calls[c].segs)
    /\ calls' = [calls EXCEPT ![c].pc = "awaiting"]
    /\ running' = <<>>
    /\ UNCHANGED <<mode, context, other, input, _parser, parserLoads, main, todo, invocations,
                   promises, settled, mapped, outcome>>

(***************************************************************************)
(* The event loop: nothing settles while synchronous code runs.            *)
(***************************************************************************)
\* variant: a promise may settle between two segments or two leaves
IdleMutant == main # "start"

Idle == running = <<>> /\ main \notin {"start", "first", "deepMap"}

\* variant: JSON.stringify(v), which puts a string in quotes
ToStrMutant(v) ==
    CASE v.t = "string" -> "\"" \o v.s \o "\""
      [] v.t = "number" -> ToString(v.n)
      [] v.t = "boolean" -> IF v.b THEN "true" ELSE "false"
      [] OTHER -> ""

\* String(v), as Array.prototype.join converts an element
ToStr(v) ==
    CASE v.t = "string" -> v.s
      [] v.t = "number" -> ToString(v.n)
      [] v.t = "boolean" -> IF v.b THEN "true" ELSE "false"
      [] OTHER -> ""

\* the value Bluebird.all gives for one element of `parsed`
\* variant: the values are taken in the order in which the promises settled
ItemValueMutant(item) ==
    IF item.kind = "value" THEN item.v
    ELSE IF item.pid <= Len(settled) THEN promises[settled[item.pid]].value
    ELSE promises[item.pid].value

ItemValue(item) == IF item.kind = "value" THEN item.v ELSE promises[item.pid].value

\* variant: an element that is a promise never counts as fulfilled
ItemFulfilledMutant(item) == item.kind = "value"

ItemFulfilled(item) ==
    IF item.kind = "value" THEN TRUE ELSE promises[item.pid].state = "fulfilled"

\* variant: a rejection is swallowed
RejectsCallSwallowed(owner, fails) == FALSE

\* variant: the last rejection wins
RejectsCallLast(owner, fails) == fails /\ calls[owner].pc \in {"awaiting", "rejected"}

\* Bluebird.all(parsed) takes the first rejection of an element: it rejects
\* the call that awaits it, and later rejections change nothing
RejectsCall(owner, fails) == fails /\ calls[owner].pc = "awaiting"

\* a resolver function's promise settles
Settle(pid) ==
    /\ Idle
    /\ promises[pid].state = "pending"
    /\ LET pr == promises[pid]
           fails == FnFails(pr.fn, pr.args)
           err == ResolverError(pr.fn, pr.args)
       IN  /\ promises' = [promises EXCEPT ![pid] =
                  IF fails THEN [pr EXCEPT !.state = "rejected", !.error = err]
                  ELSE [pr EXCEPT !.state = "fulfilled", !.value = FnValue(pr.fn, pr.args)]]
           /\ IF RejectsCall(pr.owner, fails)
              THEN Reject(pr.owner, err)
              ELSE UNCHANGED calls
    /\ settled' = Append(settled, pid)
    /\ UNCHANGED <<mode, context, other, input, _parser, parserLoads, main, todo, running,
                   invocations, mapped, outcome>>

\* a join that takes the settled values first and the promised ones in the
\* order in which they settled
RECURSIVE JoinInSettleOrder(_, _)
JoinInSettleOrder(items, k) ==
    IF k > Len(settled) THEN ""
    ELSE (IF \E i \in 1..Len(items) : items[i] = [kind |-> "promise", pid |-> settled[k]]
          THEN ToStr(promises[settled[k]].value) ELSE "")
         \o JoinInSettleOrder(items, k + 1)

RECURSIVE JoinValues(_)
JoinValues(items) ==
    IF items = <<>> THEN ""
    ELSE (IF Head(items).kind = "value" THEN ToStr(Head(items).v) ELSE "")
         \o JoinValues(Tail(items))

JoinItemsMutant(items) == JoinValues(items) \o JoinInSettleOrder(items, 1)

\* resolved.join(""): the elements in the order of the array
RECURSIVE JoinItems(_)
JoinItems(items) ==
    IF items = <<>> THEN ""
    ELSE ToStr(ItemValue(Head(items))) \o JoinItems(Tail(items))

\* Bluebird.all is fulfilled and parseTemplateString returns the joined string
Return(c) ==
    /\ Idle
    /\ calls[c].pc = "awaiting"
    /\ \A i \in 1..Len(calls[c].parsed) : ItemFulfilled(calls[c].parsed[i])
    /\ calls' = [calls EXCEPT ![c].pc = "resolved",
                              ![c].result = Str(JoinItems(calls[c].parsed))]
    /\ UNCHANGED <<mode, context, other, input, _parser, parserLoads, main, todo, running,
                   invocations, promises, settled, mapped, outcome>>

(***************************************************************************)
(* resolveTemplateStrings(o, context).                                     *)
(***************************************************************************)
\* variant: a leaf that is no string is turned into a string
MapLeafMutant(v, path) == IF TypeOf(v) = "string" THEN PromiseOf(path) ELSE Str(ToStr(v))

\* the callback given to deepMap, applied to the leaf at a path
MapLeaf(v, path) == IF TypeOf(v) = "string" THEN PromiseOf(path) ELSE v

\* the value deepMap returns: the same shape, each leaf given by the callback
RECURSIVE DeepMap(_, _)
DeepMap(v, prefix) ==
    CASE v.t = "map" ->
            Map([i \in 1..Len(v.e) |->
                    Entry(v.e[i].key, DeepMap(v.e[i].v, Append(prefix, v.e[i].key)))])
      [] v.t = "array" ->
            Arr([i \in 1..Len(v.q) |-> DeepMap(v.q[i], Append(prefix, ToString(i)))])
      [] OTHER -> MapLeaf(v, prefix)

\* the run calls resolveTemplateStrings(input, context): deepMap starts
ResolveTemplateStrings ==
    /\ main = "start" /\ mode = "resolveAll"
    /\ main' = "deepMap"
    /\ todo' = LeafPaths(input, <<>>)
    /\ UNCHANGED <<mode, context, other, input, _parser, parserLoads, running, calls,
                   invocations, promises, settled, mapped, outcome>>

\* deepMap visits the next leaf and applies the callback to it
DeepMapLeaf ==
    /\ main = "deepMap" /\ running = <<>> /\ todo # <<>>
    /\ LET path == Head(todo)
           leaf == ValueAt(input, path)
       IN  IF MapLeaf(leaf, path) = PromiseOf(path)
           THEN EnterParseTemplateString(path, leaf.s, "context")
           ELSE UNCHANGED <<_parser, parserLoads, calls, running>>
    /\ todo' = Tail(todo)
    /\ UNCHANGED <<mode, context, other, input, main, invocations, promises, settled, mapped, outcome>>

\* deepMap returns and deepResolve(mapped) is called
DeepResolve ==
    /\ main = "deepMap" /\ running = <<>> /\ todo = <<>>
    /\ mapped' = DeepMap(input, <<>>)
    /\ main' = "deepResolve"
    /\ UNCHANGED <<mode, context, other, input, _parser, parserLoads, todo, running, calls,
                   invocations, promises, settled, outcome>>

\* deepResolve's result: the same shape, each promise replaced by its value
RECURSIVE Resolved(_)
Resolved(v) ==
    CASE v.t = "map" -> Map([i \in 1..Len(v.e) |-> Entry(v.e[i].key, Resolved(v.e[i].v))])
      [] v.t = "array" -> Arr([i \in 1..Len(v.q) |-> Resolved(v.q[i])])
      [] v.t = "promise" -> calls[v.c].result
      [] OTHER -> v

\* every promise of the mapped value is fulfilled
DeepResolveReturn ==
    /\ main = "deepResolve" /\ running = <<>>
    /\ \A c \in DOMAIN calls : calls[c].pc = "resolved"
    /\ main' = "resolved"
    /\ outcome' = [kind |-> "resolved", value |-> Resolved(mapped)]
    /\ UNCHANGED <<mode, context, other, input, _parser, parserLoads, todo, running, calls,
                   invocations, promises, settled, mapped>>

\* a promise of the mapped value is rejected
DeepResolveReject ==
    /\ main = "deepResolve" /\ running = <<>>
    /\ \E c \in DOMAIN calls :
          /\ calls[c].pc = "rejected"
          /\ outcome' = [kind |-> "rejected", error |-> calls[c].error]
    /\ main' = "rejected"
    /\ UNCHANGED <<mode, context, other, input, _parser, parserLoads, todo, running, calls,
                   invocations, promises, settled, mapped>>

\* the run calls getTemplateContext(context)
GetTemplateContext ==
    /\ main = "start" /\ mode = "buildContext"
    /\ outcome' = [kind |-> "resolved", value |-> getTemplateContext(context, input)]
    /\ main' = "built"
    /\ UNCHANGED <<mode, context, other, input, _parser, parserLoads, todo, running,
                   calls, invocations, promises, settled, mapped>>

Next ==
    \/ Interpolate
    \/ InterpolateFirst
    \/ InterpolateSecond
    \/ GetTemplateContext
    \/ ResolveTemplateStrings
    \/ DeepMapLeaf
    \/ DeepResolve
    \/ \E c \in DOMAIN calls : ParseSegment(c)
    \/ \E c \in DOMAIN calls : AwaitAll(c)
    \/ \E pid \in DOMAIN promises : Settle(pid)
    \/ \E c \in DOMAIN calls : Return(c)
    \/ DeepResolveReturn
    \/ DeepResolveReject

Spec == Init /\ [][Next]_vars

\* the leaves of the inputs of resolveTemplateStrings in runs under fairness:
\* a leaf that is no string, a string whose resolver function rejects its
\* promise, and a string whose resolver function fulfils its promise under
\* one context and whose walk throws under the other
FairLeafPool == {Num(1), Str("${f.m}"), Str("x-${n.f.a}")}

FairValues ==
    {v \in Values :
        \A i \in 1..Len(LeafPaths(v, <<>>)) :
            ValueAt(v, LeafPaths(v, <<>>)[i]) \in FairLeafPool}

\* the segments of the strings of parseTemplateString in runs under
\* fairness: walks that return, that throw, and resolver functions that
\* fulfil or reject their promise, after one or two lookups
FairSegPool ==
    {Lit("x-"), Expr(<<"a">>), Expr(<<"f", "a">>), Expr(<<"f", "m">>),
     Expr(<<"n", "f", "a">>), Expr(<<"m">>)}

FairTemplates ==
    {tpl \in UNION {[1..n -> FairSegPool] : n \in 1..MaxSegs} : NoAdjacentLits(tpl)}

FairInit ==
    /\ Init
    /\ mode = "interpolate" => input \in {Source(tpl) : tpl \in FairTemplates}
    /\ mode = "resolveAll" => input \in FairValues

\* the event loop runs on while a callback is ready or a resolver function
\* has yet to settle its promise
FairSpec == FairInit /\ [][Next]_vars /\ WF_vars(Next)

(***************************************************************************)
(* Properties of the key-path walk.                                        *)
(***************************************************************************)
\* every walk made so far, with the key path it was given
WalksOf(c) ==
    {[c |-> c, seg |-> calls[c].walks[i].seg,
      parts |-> calls[c].segs[calls[c].walks[i].seg].parts,
      walk |-> calls[c].walks[i].walk] : i \in 1..Len(calls[c].walks)}

LoggedWalks == UNION {WalksOf(c) : c \in DOMAIN calls}

\* the parsed element a walk produced, if the walk did not throw
ItemOf(w) == calls[w.c].parsed[w.seg]

\* C1: the first part is looked up in the top-level context and every later
\* part as a field of the value found for the previous part, also when that
\* value is falsy; a later part is never looked up in the top-level context.
C1_LaterPartsReadFromPreviousValue ==
    \A w \in LoggedWalks :
        LET lk == w.walk.lookups
        IN  \A j \in 1..Len(lk) :
                /\ lk[j].part = w.parts[j]
                /\ lk[j].top = (j = 1)
                /\ lk[j].found = GetProp(IF j = 1 THEN CtxOf(w.c) ELSE lk[j - 1].found,
                                         lk[j].part)

\* C3: a resolution that completes without error yields a string, number or
\* boolean, also when a resolver function produced it; a walk that ends on
\* any other value ends in an error.
C3_ResolvedValueIsPrimitive ==
    \A w \in LoggedWalks :
        LET lk == w.walk.lookups
            last == lk[Len(lk)].found
        IN  /\ w.walk.kind = "return" => isPrimitive(w.walk.value)
            /\ (Len(lk) = Len(w.parts) /\ TypeOf(last) \notin {"function", "undefined"}
                /\ ~isPrimitive(last)) => w.walk.kind = "throw"
            /\ (w.walk.kind # "throw" /\ calls[w.c].pc # "rejected"
                /\ ItemFulfilled(ItemOf(w))) => isPrimitive(ItemValue(ItemOf(w)))

\* a walk returned a value and, in the same call, a resolver function's
\* promise was fulfilled
C3_Witness ==
    \E w1 \in LoggedWalks, w2 \in LoggedWalks :
        /\ w1.c = w2.c /\ calls[w1.c].pc = "resolved"
        /\ w1.walk.kind = "return" /\ Len(w1.parts) > 1
        /\ w2.walk.kind = "call" /\ ItemOf(w2).kind = "promise"

\* the calls of resolver functions made for one segment
InvocationsFor(c, seg) ==
    {k \in 1..Len(invocations) : invocations[k].c = c /\ invocations[k].seg = seg}

\* C4: when the value looked up at part index i is a resolver function, that
\* function is called exactly once, with exactly the parts after i, no later
\* part is looked up, and the function's result is the result of the
\* resolution.
C4_ResolverFunctionTakesOver ==
    \A w \in LoggedWalks :
        \A j \in 1..Len(w.walk.lookups) :
            LET f == w.walk.lookups[j].found
                rest == SubSeq(w.parts, j + 1, Len(w.parts))
            IN  TypeOf(f) = "function" =>
                    /\ Len(w.walk.lookups) = j
                    /\ Cardinality(InvocationsFor(w.c, w.seg)) = 1
                    /\ \A k \in InvocationsFor(w.c, w.seg) :
                          invocations[k].fn = f.id /\ invocations[k].args = rest
                    /\ IF f.id \in AsyncFns
                       THEN /\ ItemOf(w).kind = "promise"
                            /\ promises[ItemOf(w).pid].fn = f.id
                            /\ promises[ItemOf(w).pid].args = rest
                            /\ promises[ItemOf(w).pid].state = "fulfilled"
                                  => ItemValue(ItemOf(w)) = FnValue(f.id, rest)
                            /\ promises[ItemOf(w).pid].state = "rejected"
                                  => promises[ItemOf(w).pid].error = ResolverError(f.id, rest)
                       ELSE IF FnFails(f.id, rest)
                            THEN /\ calls[w.c].pc = "rejected"
                                 /\ calls[w.c].error = ResolverError(f.id, rest)
                            ELSE ItemOf(w) = Item(FnValue(f.id, rest))

\* a resolver function found before the end of the path was called with
\* later parts that the context itself would resolve, and its promise is
\* fulfilled
C4_Witness ==
    \E w \in LoggedWalks :
        /\ w.walk.kind = "call"
        /\ Len(w.walk.lookups) < Len(w.parts)
        /\ genericResolver(CtxOf(w.c), w.walk.args).kind = "return"
        /\ ItemOf(w).kind = "promise"
        /\ promises[ItemOf(w).pid].state = "fulfilled"

\* C5: if the lookup of any part finds nothing, the resolution fails with the
\* error "Could not find key: <full dotted path>" and yields no value.
C5_MissingKeyFails ==
    \A w \in LoggedWalks :
        (\E j \in 1..Len(w.walk.lookups) : w.walk.lookups[j].found = Undefined) =>
            /\ w.walk.kind = "throw"
            /\ w.walk.error.type = "TemplateStringError"
            /\ w.walk.error.message = <<"Could not find key: ", Join(w.parts, ".")>>
            /\ calls[w.c].pc = "rejected"
            /\ calls[w.c].error = w.walk.error
            /\ calls[w.c].result = Undefined
            /\ Len(calls[w.c].parsed) < w.seg

\* a middle part of a three-part path was not found
C5_Witness ==
    \E w \in LoggedWalks :
        /\ Len(w.parts) = 3
        /\ Len(w.walk.lookups) = 2
        /\ w.walk.lookups[2].found = Undefined
        /\ calls[w.c].pc = "rejected"

\* the walks that looked up every part and met no resolver function and no
\* missing value, but ended on a value that is not a primitive
EndedOnNonPrimitive(w) ==
    LET lk == w.walk.lookups
    IN  /\ Len(lk) = Len(w.parts)
        /\ TypeOf(lk[Len(lk)].found) \notin {"function", "undefined"}
        /\ ~isPrimitive(lk[Len(lk)].found)

\* C6 as stated: such a walk fails with an error that carries the full dotted
\* path and the observed kind of the value.
C6_ErrorCarriesPathAndKind ==
    \A w \in LoggedWalks :
        EndedOnNonPrimitive(w) =>
            /\ w.walk.kind = "throw"
            /\ Contains(w.walk.error.message, Join(w.parts, "."))
            /\ Contains(w.walk.error.message,
                        TypeOf(w.walk.lookups[Len(w.parts)].found))

\* C6 as amended: such a walk fails with the error "Value at <full dotted
\* path> exists but is not a primitive (string, number or boolean)", which
\* carries the path and nothing that depends on the value.
C6_ErrorCarriesPath ==
    \A w \in LoggedWalks :
        EndedOnNonPrimitive(w) =>
            /\ w.walk.kind = "throw"
            /\ w.walk.error.type = "TemplateStringError"
            /\ w.walk.error.message =
                  <<"Value at ", Join(w.parts, "."),
                    " exists but is not a primitive (string, number or boolean)">>
            /\ calls[w.c].pc = "rejected"
            /\ calls[w.c].error = w.walk.error

\* a two-part path ended on a nested context
C6_Witness ==
    \E w \in LoggedWalks :
        /\ EndedOnNonPrimitive(w)
        /\ Len(w.parts) = 2
        /\ calls[w.c].pc = "rejected"

(***************************************************************************)
(* Properties of parseTemplateString.                                      *)
(***************************************************************************)
\* what the resolution of one segment against a context comes to, taken alone
SegOutcome(ctx, seg) ==
    IF seg.k = "lit" THEN [fails |-> FALSE, text |-> seg.text]
    ELSE LET w == genericResolver(ctx, seg.parts)
         IN  CASE w.kind = "return" -> [fails |-> FALSE, text |-> ToStr(w.value)]
               [] w.kind = "throw" -> [fails |-> TRUE, sync |-> TRUE, error |-> w.error]
               [] OTHER ->
                    IF FnFails(w.fn, w.args)
                    THEN [fails |-> TRUE, sync |-> w.fn \notin AsyncFns,
                          error |-> ResolverError(w.fn, w.args)]
                    ELSE [fails |-> FALSE, text |-> FnValue(w.fn, w.args).s]

\* the segments of call c that fail, and those that fail synchronously
FailingSegs(c) ==
    {i \in 1..Len(calls[c].segs) : SegOutcome(CtxOf(c), calls[c].segs[i]).fails}

SyncFailingSegs(c) ==
    {i \in FailingSegs(c) : SegOutcome(CtxOf(c), calls[c].segs[i]).sync}

Min(S) == CHOOSE x \in S : \A y \in S : x <= y

\* the positions in `settled` of the rejected promises of call c
RejectionsOf(c) ==
    {k \in 1..Len(settled) :
        promises[settled[k]].owner = c /\ promises[settled[k]].state = "rejected"}

\* C2 as stated: when segments fail, the error reported is that of the
\* failing segment that comes first in source order.
C2_ErrorOfFirstFailingSegment ==
    \A c \in DOMAIN calls :
        calls[c].pc = "rejected" =>
            calls[c].error = SegOutcome(CtxOf(c), calls[c].segs[Min(FailingSegs(c))]).error

\* C2 as amended: the error reported is that of the failure that happens
\* first.  A segment that fails synchronously (the walk throws, or a resolver
\* function throws) ends parsing at once: the first such segment in source
\* order gives the error, also when an earlier segment's promise rejects
\* later.  If no segment fails synchronously, the error is that of the
\* promise rejected first, whatever its position among the segments.
C2_ErrorOfFirstFailure ==
    \A c \in DOMAIN calls :
        calls[c].pc = "rejected" =>
            IF SyncFailingSegs(c) # {}
            THEN calls[c].error = SegOutcome(CtxOf(c), calls[c].segs[Min(SyncFailingSegs(c))]).error
            ELSE /\ RejectionsOf(c) # {}
                 /\ calls[c].error = promises[settled[Min(RejectionsOf(c))]].error

\* two segments failed asynchronously and the later one in source order was
\* rejected first
C2_Witness ==
    \E c \in DOMAIN calls :
        /\ calls[c].pc = "rejected"
        /\ Cardinality(RejectionsOf(c)) = 2
        /\ promises[settled[Min(RejectionsOf(c))]].seg = 2

\* the promises of call c
PromisesOf(c) == {pid \in DOMAIN promises : promises[pid].owner = c}

\* C7: if a segment fails, the call fails with the error a failing segment
\* raised, as raised, and returns no string.
C7_FailingSegmentFailsCall ==
    \A c \in DOMAIN calls :
        /\ calls[c].pc = "resolved" => FailingSegs(c) = {}
        /\ calls[c].pc = "rejected" =>
              /\ \E i \in FailingSegs(c) :
                    calls[c].error = SegOutcome(CtxOf(c), calls[c].segs[i]).error
              /\ calls[c].result = Undefined
        /\ (/\ FailingSegs(c) # {}
            /\ calls[c].pc # "parsing"
            /\ \A pid \in PromisesOf(c) : promises[pid].state # "pending")
              => calls[c].pc = "rejected"

\* a call was rejected by a promise after another segment had resolved
C7_Witness ==
    \E c \in DOMAIN calls :
        /\ calls[c].pc = "rejected"
        /\ RejectionsOf(c) # {}
        /\ \E i \in 1..Len(calls[c].parsed) :
              calls[c].parsed[i].kind = "value" /\ calls[c].segs[i].k = "expr"

\* the concatenation of the segment values in source order
RECURSIVE ConcatSegs(_, _)
ConcatSegs(ctx, segs) ==
    IF segs = <<>> THEN ""
    ELSE SegOutcome(ctx, Head(segs)).text \o ConcatSegs(ctx, Tail(segs))

\* C8: when every segment resolves, the string returned is the concatenation
\* of the segment values in source order, whatever the order of settling.
C8_ConcatenationInSourceOrder ==
    \A c \in DOMAIN calls :
        calls[c].pc = "resolved" => calls[c].result = Str(ConcatSegs(CtxOf(c), calls[c].segs))

\* two promises of one call settled in the reverse of their source order
C8_Witness ==
    \E c \in DOMAIN calls :
        /\ calls[c].pc = "resolved"
        /\ \E k1 \in 1..Len(settled), k2 \in 1..Len(settled) :
              /\ k1 < k2
              /\ promises[settled[k1]].owner = c /\ promises[settled[k2]].owner = c
              /\ promises[settled[k1]].seg > promises[settled[k2]].seg

(***************************************************************************)
(* Properties of resolveTemplateStrings.                                   *)
(***************************************************************************)
\* what parseTemplateString returns for a string all of whose segments resolve
Interpolated(string) == Str(ConcatSegs(context, Segments(string)))

\* out has the shape of in: the same keys in the same order, the same
\* lengths, the leaves that are no strings unchanged, the strings interpolated
RECURSIVE SameShape(_, _)
SameShape(in, out) ==
    CASE in.t = "map" ->
            /\ out.t = "map"
            /\ Len(out.e) = Len(in.e)
            /\ \A i \in 1..Len(in.e) :
                  out.e[i].key = in.e[i].key /\ SameShape(in.e[i].v, out.e[i].v)
      [] in.t = "array" ->
            /\ out.t = "array"
            /\ Len(out.q) = Len(in.q)
            /\ \A i \in 1..Len(in.q) : SameShape(in.q[i], out.q[i])
      [] in.t = "string" -> out = Interpolated(in.s)
      [] OTHER -> out = in

\* the leaves of the input, by path
LeafPathSet == {LeafPaths(input, <<>>)[i] : i \in 1..Len(LeafPaths(input, <<>>))}

\* C9: when all string leaves resolve, the value returned has the shape of
\* the input: same keys, same lengths and order, null, boolean and number
\* leaves unchanged, every string leaf replaced by its interpolation.
C9_ResultHasShapeOfInput ==
    main = "resolved" => outcome.kind = "resolved" /\ SameShape(input, outcome.value)

\* a value with a two-element sequence, a leaf that is no string and a
\* string leaf that a resolver function resolved
C9_Witness ==
    /\ main = "resolved"
    /\ \E p1 \in LeafPathSet, p2 \in LeafPathSet, p3 \in LeafPathSet :
          /\ ValueAt(input, p1).t \in {"null", "number", "boolean"}
          /\ p2 \in DOMAIN calls /\ PromisesOf(p2) # {}
          /\ Len(p3) = 2 /\ p3[2] = "2"

\* C10: when the promises of several string leaves settle in any order, each
\* leaf's resolved value stands at that leaf's own path in the result.
C10_LeafValuesAtOwnPosition ==
    main = "resolved" =>
        \A path \in DOMAIN calls :
            /\ ValueAt(outcome.value, path) = calls[path].result
            /\ ValueAt(outcome.value, path) = Interpolated(ValueAt(input, path).s)

\* the promises of two leaves settled in the reverse of the order in which
\* deepMap visited the leaves
C10_Witness ==
    /\ main = "resolved"
    /\ Len(settled) >= 2
    /\ promises[settled[1]].owner # promises[settled[2]].owner
    /\ settled[1] > settled[2]

\* the string leaves of the input
StringLeaves == {path \in LeafPathSet : ValueAt(input, path).t = "string"}

\* a string leaf for which parseTemplateString has been called has a segment
\* that fails
HasFailingLeaf == \E c \in DOMAIN calls : FailingSegs(c) # {}

\* no leaf of a value is a promise
RECURSIVE NoPromise(_)
NoPromise(v) ==
    CASE v.t = "map" -> \A i \in 1..Len(v.e) : NoPromise(v.e[i].v)
      [] v.t = "array" -> \A i \in 1..Len(v.q) : NoPromise(v.q[i])
      [] OTHER -> v.t # "promise"

\* C11: if the interpolation of a string leaf fails, resolveTemplateStrings
\* fails as a whole with the error of a failed leaf and returns no tree; a
\* tree is returned only when every leaf has resolved, and it holds no
\* pending result.
C11_AllOrNothing ==
    mode = "resolveAll" =>
        /\ HasFailingLeaf => main # "resolved" /\ outcome.kind # "resolved"
        /\ main \in {"deepResolve", "resolved", "rejected"} => DOMAIN calls = StringLeaves
        /\ main = "resolved" =>
              /\ \A c \in DOMAIN calls : calls[c].pc = "resolved"
              /\ NoPromise(outcome.value)
        /\ main = "rejected" =>
              /\ outcome.kind = "rejected"
              /\ \E c \in DOMAIN calls :
                    calls[c].pc = "rejected" /\ outcome.error = calls[c].error
        /\ (/\ main = "deepResolve"
            /\ HasFailingLeaf
            /\ \A pid \in DOMAIN promises : promises[pid].state # "pending")
              => \E c \in DOMAIN calls : calls[c].pc = "rejected"

\* the call failed although another leaf had resolved
C11_Witness ==
    /\ main = "rejected"
    /\ outcome.kind = "rejected"
    /\ \E c1 \in DOMAIN calls, c2 \in DOMAIN calls :
          /\ calls[c1].pc = "resolved" /\ PromisesOf(c1) # {}
          /\ calls[c2].pc = "rejected" /\ PromisesOf(c2) # {}

C13_ExtraOverBase ==
    (mode = "buildContext" /\ main = "built") =>
        /\ outcome.value.t = "object"
        /\ DOMAIN outcome.value.m = DOMAIN context.m \cup {"env"}
        /\ \A k \in DOMAIN outcome.value.m :
              outcome.value.m[k] = IF k \in DOMAIN context.m THEN context.m[k] ELSE input

\* the extra context has a nested context at env, where process.env has
\* other keys, and a further key
C13_Witness ==
    /\ mode = "buildContext" /\ main = "built"
    /\ DOMAIN context.m = {"env", "a"}
    /\ context.m["env"].t = "object"
    /\ input.t = "object" /\ "PATH" \in DOMAIN input.m
    /\ outcome.value.m["env"] = context.m["env"]

(***************************************************************************)
(* Templates without expressions.                                          *)
(***************************************************************************)
NoExpression(c) == \A i \in 1..Len(calls[c].segs) : calls[c].segs[i].k = "lit"

\* C14: a string without expression segment is returned as it is, and no
\* lookup is made and no resolver function called for it.
C14_LiteralReturnedUnchanged ==
    \A c \in DOMAIN calls :
        NoExpression(c) =>
            /\ calls[c].pc # "rejected"
            /\ calls[c].pc = "resolved" => calls[c].result = Str(calls[c].string)
            /\ calls[c].walks = <<>>
            /\ PromisesOf(c) = {}
            /\ \A k \in 1..Len(invocations) : invocations[k].c # c

\* a literal spelled like a key of the context was returned
C14_Witness ==
    \E c \in DOMAIN calls :
        /\ NoExpression(c)
        /\ calls[c].pc = "resolved"
        /\ calls[c].string = "z.a"

(***************************************************************************)
(* Calls pending at the same time.                                         *)
(***************************************************************************)
\* the errors a call of parseTemplateString running alone, on a string of
\* these segments and with this context, can fail with: none when every
\* segment resolves
AloneErrors(segs, ctx) ==
    LET outs == [i \in 1..Len(segs) |-> SegOutcome(ctx, segs[i])]
        failing == {i \in 1..Len(segs) : outs[i].fails}
        sync == {i \in failing : outs[i].sync}
    IN  IF sync # {} THEN {outs[Min(sync)].error}
        ELSE {outs[i].error : i \in failing}

C16_ContextUnchanged == [][context' = context /\ other' = other]_vars

\* walks over both contexts have ended in the three ways: one returned a
\* value, one did not find a key, one found a value that is not a primitive
C16_Witness ==
    /\ mode = "pair"
    /\ \E w1 \in LoggedWalks, w2 \in LoggedWalks, w3 \in LoggedWalks :
          /\ w1.walk.kind = "return"
          /\ w2.walk.kind = "throw"
          /\ w2.walk.error = KeyNotFoundError(Join(w2.parts, "."))
          /\ w3.walk.kind = "throw"
          /\ EndedOnNonPrimitive(w3)
          /\ w2.c # w3.c
    /\ context \in Contexts /\ other \in Contexts

(***************************************************************************)
(* Everything is issued before anything is waited for.                     *)
(***************************************************************************)
\* the expression segments of call c
ExprSegs(c) == {i \in 1..Len(calls[c].segs) : calls[c].segs[i].k = "expr"}

\* every expression segment of call c has been walked, and every resolver
\* function found has been called
AllIssued(c) ==
    /\ {calls[c].walks[k].seg : k \in 1..Len(calls[c].walks)} = ExprSegs(c)
    /\ \A k \in 1..Len(calls[c].walks) :
          calls[c].walks[k].walk.kind = "call" =>
              InvocationsFor(c, calls[c].walks[k].seg) # {}

\* C17: a call of parseTemplateString waits only when the key resolution of
\* every segment has been issued, and no promise settles before that;
\* resolveTemplateStrings waits only when the interpolation of every string
\* leaf has been issued, and no promise settles before that.
C17_IssuedBeforeWaiting ==
    /\ \A c \in DOMAIN calls :
          /\ calls[c].pc \in {"awaiting", "resolved"} => AllIssued(c)
          /\ calls[c].pc = "parsing" =>
                \A pid \in PromisesOf(c) : promises[pid].state = "pending"
    /\ mode = "resolveAll" =>
          /\ main \in {"deepResolve", "resolved", "rejected"} =>
                /\ StringLeaves = DOMAIN calls
                /\ \A c \in DOMAIN calls : calls[c].pc # "parsing"
          /\ main \in {"start", "deepMap"} => settled = <<>>

\* resolveTemplateStrings waits with two leaf calls issued, each waiting for
\* a resolver function it has called; one of the two promises has settled
C17_Witness ==
    /\ mode = "resolveAll" /\ main = "deepResolve"
    /\ Len(settled) = 1
    /\ \E c1 \in DOMAIN calls, c2 \in DOMAIN calls :
          /\ c1 # c2
          /\ calls[c1].pc = "awaiting" /\ calls[c2].pc = "awaiting"
          /\ \E p1 \in PromisesOf(c1), p2 \in PromisesOf(c2) :
                promises[p1].state = "pending" /\ promises[p2].state = "fulfilled"

(***************************************************************************)
(* Termination.                                                            *)
(***************************************************************************)
\* a walk makes at most one lookup per part and then returns, throws or
\* hands over to a resolver function; it returns only after the last part
WalkBounded ==
    \A w \in LoggedWalks :
        /\ Len(w.walk.lookups) <= Len(w.parts)
        /\ w.walk.kind \in {"return", "throw", "call"}
        /\ w.walk.kind = "return" => Len(w.walk.lookups) = Len(w.parts)

\* every call of the run has returned or failed
Ended ==
    /\ \A c \in DOMAIN calls : calls[c].pc \in {"resolved", "rejected"}
    /\ \/ main \in {"resolved", "rejected", "built"}
       \/ main = "interpolate"
       \/ main = "pair"

\* C18: a walk over n parts makes at most n lookups, and when every resolver
\* function called settles its promise, every call of parseTemplateString
\* and of resolveTemplateStrings returns or fails in the end.
C18_EveryCallEnds == []WalkBounded /\ <>[]Ended

\* a call that waited for two resolver functions has returned, after walks
\* over three parts
C18_Witness ==
    /\ Ended
    /\ Len(settled) >= 2
    /\ \E c \in DOMAIN calls :
          calls[c].pc = "resolved" /\ \E p1 \in PromisesOf(c), p2 \in PromisesOf(c) : p1 # p2
    /\ \E w \in LoggedWalks : Len(w.parts) = 3 /\ Len(w.walk.lookups) = 2

=============================================================================
